---- MODULE Spec2Model ----
(***************************************************************************)
(* Clipboard image store of the Electron main process                      *)
(* (electron/clipboard-image-handler.ts): one directory, one file per      *)
(* record named {id}{ext}, and the IPC handlers that save, load, delete,   *)
(* list and locate records, copy an image file into the store, store the   *)
(* clipboard bitmap as PNG and read file paths from the clipboard (Spec);  *)
(* and the web application: the size-capped blob store and the directive   *)
(* that resolves image references to renderable URLs (SpecWeb).            *)
(***************************************************************************)
EXTENDS Integers, Sequences, FiniteSets, TLC

VARIABLES
  dirExists,   \* the directory basePath exists
  files,       \* directory content: file name <<id, ext>> -> bytes
  clock,       \* Date.now()
  last,        \* the last handler call: arguments, injected failure, result
  watch,       \* the identifier whose history is recorded (any one, fixed)
  hist         \* history of the identifier watch:
               \*   written: calls that wrote a file of that id (capped at 2)
               \*   ext:     the extension the last of them wrote
               \*   deleted: delete(id) returned true and no call wrote the id since
               \*   save:    the save that last wrote the id completely, as long
               \*            as no call wrote or deleted the id since
               \*   readImg: read-image returned the id and delete(id) has
               \*            not returned true since

\* The web application: the blob store (IndexedDB) and the directive that
\* resolves the image nodes of the rendered markdown
VARIABLES
  blobs,       \* blob store: id -> byte length of the stored blob, 0 for none
  webLast,     \* the last call of the blob store and its result
  nodes,       \* image node -> state, id of its reference, token set as src,
               \*   alive (the node is in the render tree)
  pending,     \* the pending-request cache: ids with a load in flight
  inflight,    \* id -> backend load calls in flight
  tokens,      \* the renderable-URL tokens that are live (created, not released)
  nextToken    \* the next token to create

storeVars == <<dirExists, files, clock, last, watch, hist>>
webVars == <<blobs, webLast, nodes, pending, inflight, tokens, nextToken>>
vars == <<dirExists, files, clock, last, watch, hist,
          blobs, webLast, nodes, pending, inflight, tokens, nextToken>>

----------------------------------------------------------------------------
(* Bounds *)

MaxClock == 2     \* values of Date.now()
MaxRand  == 1     \* values of Math.random(): 1..MaxRand
MaxFiles == 2     \* files the directory holds at most
MaxNodes == 2     \* image nodes the renderer creates

----------------------------------------------------------------------------
(* Identifiers, extensions, payloads *)

\* Date.now().toString(36) + Math.random().toString(36).substring(2): the
\* pair of the time part and the random part.
NewId(t, r) == <<t, r>>

Rands == 1..MaxRand

Ids == (1..MaxClock) \X Rands
NoId == <<0, 0>>

SUPPORTED_IMAGE_EXTENSIONS ==
  <<".png", ".jpg", ".jpeg", ".gif", ".webp", ".svg", ".bmp">>

SupportedSet == {SUPPORTED_IMAGE_EXTENSIONS[i] : i \in DOMAIN SUPPORTED_IMAGE_EXTENSIONS}

\* String.prototype.toLowerCase on the extensions the model uses
toLowerCase(ext) ==
  CASE ext = ".PNG" -> ".png"
    [] ext = ".JPG" -> ".jpg"
    [] OTHER -> ext

getMimeFromExt(ext) ==
  LET extLower == toLowerCase(ext) IN
  CASE extLower = ".png"  -> "image/png"
    [] extLower = ".jpg"  -> "image/jpeg"
    [] extLower = ".jpeg" -> "image/jpeg"
    [] extLower = ".gif"  -> "image/gif"
    [] extLower = ".webp" -> "image/webp"
    [] extLower = ".svg"  -> "image/svg+xml"
    [] extLower = ".bmp"  -> "image/bmp"
    [] OTHER -> "image/png"

MimeTypes ==
  {"image/png", "image/jpeg", "image/gif", "image/webp", "image/svg+xml", "image/bmp"}

\* Payloads the callers hand in (byte sequences)
Payloads == { <<77>>, <<77, 1, 16, 3>> }

\* Extensions of the file names passed to save, and of the source paths
\* passed to copy-image-file
SaveExts == {".png", ".jpg", ".tiff"}
CopyExts == {".PNG", ".jpg", ".tiff"}

----------------------------------------------------------------------------
(* base64: Buffer.from(s, 'base64') and buffer.toString('base64').          *)
(* A base64 string is a sequence of sextets 0..63, 64 standing for '='.     *)

Pad == 64

RECURSIVE B64Encode(_)
B64Encode(b) ==
  IF Len(b) = 0 THEN <<>>
  ELSE IF Len(b) = 1 THEN
    << b[1] \div 4, (b[1] % 4) * 16, Pad, Pad >>
  ELSE IF Len(b) = 2 THEN
    << b[1] \div 4, (b[1] % 4) * 16 + (b[2] \div 16), (b[2] % 16) * 4, Pad >>
  ELSE
    << b[1] \div 4, (b[1] % 4) * 16 + (b[2] \div 16),
       (b[2] % 16) * 4 + (b[3] \div 64), b[3] % 64 >>
    \o B64Encode(SubSeq(b, 4, Len(b)))

\* the sextets before the first '='
RECURSIVE B64Body(_)
B64Body(s) ==
  IF Len(s) = 0 \/ s[1] = Pad THEN <<>> ELSE <<s[1]>> \o B64Body(Tail(s))

RECURSIVE B64DecodeBody(_)
B64DecodeBody(s) ==
  IF Len(s) < 2 THEN <<>>
  ELSE IF Len(s) = 2 THEN
    << s[1] * 4 + (s[2] \div 16) >>
  ELSE IF Len(s) = 3 THEN
    << s[1] * 4 + (s[2] \div 16), (s[2] % 16) * 16 + (s[3] \div 4) >>
  ELSE
    << s[1] * 4 + (s[2] \div 16), (s[2] % 16) * 16 + (s[3] \div 4),
       (s[3] % 4) * 64 + s[4] >>
    \o B64DecodeBody(SubSeq(s, 5, Len(s)))

B64Decode(s) == B64DecodeBody(B64Body(s))

\* base64Data arguments of save: the encodings of the payloads, and one
\* unpadded string ("TQ" for "TQ==")
Base64Inputs == { B64Encode(b) : b \in Payloads } \cup { <<19, 16>> }

----------------------------------------------------------------------------
(* The directory *)

Name(id, ext) == <<id, ext>>

existsSync(fs, name) == name \in DOMAIN fs

writeFile(fs, name, bytes) ==
  [n \in (DOMAIN fs) \cup {name} |-> IF n = name THEN bytes ELSE fs[n]]

\* mutant: the file is not removed
unlinkSync_Kept(fs, name) == fs

unlinkSync(fs, name) == [n \in (DOMAIN fs) \ {name} |-> fs[n]]

\* first extension of SUPPORTED_IMAGE_EXTENSIONS, from position i on, under
\* which a file of this id exists; 0 when there is none
RECURSIVE findFrom(_, _, _)
findFrom(fs, imageId, i) ==
  IF i > Len(SUPPORTED_IMAGE_EXTENSIONS) THEN 0
  ELSE IF existsSync(fs, Name(imageId, SUPPORTED_IMAGE_EXTENSIONS[i])) THEN i
  ELSE findFrom(fs, imageId, i + 1)

NoFile == <<NoId, "">>

\* mutant: the extensions are probed from the last to the first
findImageFile_LastExt(fs, imageId) ==
  LET found == {i \in DOMAIN SUPPORTED_IMAGE_EXTENSIONS :
                  existsSync(fs, Name(imageId, SUPPORTED_IMAGE_EXTENSIONS[i]))}
  IN IF found = {} THEN NoFile
     ELSE Name(imageId, SUPPORTED_IMAGE_EXTENSIONS[
                 CHOOSE i \in found : \A j \in found : j <= i])

findImageFile(fs, imageId) ==
  LET i == findFrom(fs, imageId, 1) IN
  IF i = 0 THEN NoFile ELSE Name(imageId, SUPPORTED_IMAGE_EXTENSIONS[i])

----------------------------------------------------------------------------
(* Results of the handlers.  One record shape for all of them: found is    *)
(* "the result is not null" (for delete: the result is true), threw is     *)
(* "the handler rejected", changed is "the call changed the directory      *)
(* content".                                                               *)

NoResult ==
  [found |-> FALSE, base64 |-> <<>>, mimeType |-> "", size |-> 0]

\* mutant: every catch block rethrows, as the one of save does
Propagates_Always(op, fault) == fault # "none"

\* The catch blocks: the save handler logs and rethrows, every other handler
\* logs and returns its not-found value.
Propagates(op, fault) == op = "save" /\ fault # "none"

Call(op, id, ext, fault, res, list, paths, changed) ==
  [op |-> op, id |-> id, ext |-> ext, fault |-> fault,
   threw |-> Propagates(op, fault),
   found |-> res.found, base64 |-> res.base64, mimeType |-> res.mimeType,
   size |-> res.size, list |-> list, paths |-> paths, changed |-> changed,
   text |-> <<>>]

Inc(n) == IF n < 2 THEN n + 1 ELSE n

NoSave == [ok |-> FALSE, ext |-> "", bytes |-> <<>>]

Room(name) == existsSync(files, name) \/ Cardinality(DOMAIN files) < MaxFiles

\* ensureDir: mkdirSync when the directory is missing
ensureDir(exists) == IF ~exists THEN TRUE ELSE exists

\* fs.writeFileSync(filePath, data): complete, or failing when the file is
\* opened (nothing written), or failing after the file was opened and
\* truncated and only the first k bytes were written (disk full)
writeFileSync(fs, name, bytes, fault, k) ==
  IF fault = "open" THEN fs
  ELSE IF fault = "write" THEN writeFile(fs, name, SubSeq(bytes, 1, k))
  ELSE writeFile(fs, name, bytes)

\* the history after a call that wrote a file of this id
Touch(id, ext, save) ==
  hist' = IF id = watch
          THEN [hist EXCEPT !.written = Inc(@), !.ext = ext, !.deleted = FALSE,
                            !.save = save]
          ELSE hist

----------------------------------------------------------------------------
(* IPC.CLIPBOARD_IMAGE_SAVE *)

Save(id, ext, base64Data, fault, k) ==
  LET name == Name(id, ext)
      buffer == B64Decode(base64Data)
  IN
  /\ Room(name)
  /\ fault \in {"none", "mkdir", "open", "write"}
  /\ fault = "mkdir" => ~dirExists
  /\ fault = "write" => k < Len(buffer)
  /\ IF fault = "mkdir"
     THEN /\ UNCHANGED <<dirExists, files, hist>>
          /\ last' = Call("save", id, ext, fault, NoResult, <<>>, <<>>, FALSE)
     ELSE /\ dirExists' = ensureDir(dirExists)
          /\ files' = writeFileSync(files, name, buffer, fault, k)
          /\ IF fault = "open"
             THEN UNCHANGED hist
             ELSE Touch(id, ext,
                        IF fault = "none" /\ ext \in SupportedSet
                        THEN [ok |-> TRUE, ext |-> ext, bytes |-> buffer]
                        ELSE NoSave)
          /\ last' = Call("save", id, ext, fault, [NoResult EXCEPT !.found = (fault = "none")],
                          <<>>, <<>>, files' # files)
  /\ UNCHANGED <<clock, watch>>

----------------------------------------------------------------------------
(* IPC.CLIPBOARD_IMAGE_LOAD *)

\* path.extname of a file name of the directory
extname(name) == name[2]

LoadResult(fs, imageId, fault) ==
  LET filePath == findImageFile(fs, imageId) IN
  IF filePath = NoFile THEN NoResult
  ELSE IF fault = "read" THEN NoResult
  ELSE [found |-> TRUE,
        base64 |-> B64Encode(fs[filePath]),
        mimeType |-> getMimeFromExt(extname(filePath)),
        size |-> 0]

Load(imageId, fault) ==
  /\ fault \in {"none", "read"}
  /\ fault = "read" => findImageFile(files, imageId) # NoFile
  /\ last' = Call("load", imageId, "", fault,
                  LoadResult(files, imageId, fault), <<>>, <<>>, FALSE)
  /\ UNCHANGED <<dirExists, files, clock, watch, hist>>

----------------------------------------------------------------------------
(* IPC.CLIPBOARD_IMAGE_DELETE *)

\* mutant: every file of the id is removed
DeleteFiles_AllOfId(fs, imageId, fault) ==
  IF findImageFile(fs, imageId) = NoFile \/ fault = "unlink" THEN fs
  ELSE [n \in {m \in DOMAIN fs : m[1] # imageId} |-> fs[n]]

DeleteFiles(fs, imageId, fault) ==
  LET filePath == findImageFile(fs, imageId) IN
  IF filePath = NoFile \/ fault = "unlink" THEN fs ELSE unlinkSync(fs, filePath)

DeleteResult(fs, imageId, fault) ==
  findImageFile(fs, imageId) # NoFile /\ fault # "unlink"

Delete(imageId, fault) ==
  LET ok == DeleteResult(files, imageId, fault) IN
  /\ fault \in {"none", "unlink"}
  /\ fault = "unlink" => findImageFile(files, imageId) # NoFile
  /\ files' = DeleteFiles(files, imageId, fault)
  /\ last' = Call("delete", imageId, "", fault, [NoResult EXCEPT !.found = ok], <<>>, <<>>, files' # files)
  /\ hist' = IF ok /\ imageId = watch
             THEN [hist EXCEPT !.deleted = TRUE, !.save = NoSave, !.readImg = FALSE]
             ELSE hist
  /\ UNCHANGED <<dirExists, clock, watch>>

----------------------------------------------------------------------------
(* IPC.CLIPBOARD_IMAGE_LIST *)

AllExts == SUPPORTED_IMAGE_EXTENSIONS \o <<".tiff", "">>

ExtRank(ext) == CHOOSE i \in DOMAIN AllExts : AllExts[i] = ext

NameRank(name) ==
  (name[1][1] * (MaxRand + 1) + name[1][2]) * (Len(AllExts) + 1) + ExtRank(name[2])

\* fs.readdirSync: the file names of the directory, in the directory's order
RECURSIVE SortNames(_)
SortNames(S) ==
  IF S = {} THEN <<>>
  ELSE LET n == CHOOSE x \in S : \A y \in S : NameRank(x) <= NameRank(y)
       IN <<n>> \o SortNames(S \ {n})

readdirSync(fs) == SortNames(DOMAIN fs)

\* path.basename(file, ext)
basename(file, ext) == file[1]

RECURSIVE ListFrom(_, _)
ListFrom(fs, fileSeq) ==
  IF fileSeq = <<>> THEN <<>>
  ELSE LET file == Head(fileSeq)
           ext == toLowerCase(extname(file))
       IN IF ext \notin SupportedSet
          THEN ListFrom(fs, Tail(fileSeq))
          ELSE << [id |-> basename(file, ext),
                   mimeType |-> getMimeFromExt(ext),
                   size |-> Len(fs[file])] >>
               \o ListFrom(fs, Tail(fileSeq))

ListResult(exists, fs, fault) ==
  IF ~exists \/ fault = "io" THEN <<>> ELSE ListFrom(fs, readdirSync(fs))

List(fault) ==
  /\ fault \in {"none", "io"}
  /\ fault = "io" => dirExists
  /\ last' = Call("list", NoId, "", fault, NoResult,
                  ListResult(dirExists, files, fault), <<>>, FALSE)
  /\ UNCHANGED <<dirExists, files, clock, watch, hist>>

----------------------------------------------------------------------------
(* IPC.CLIPBOARD_IMAGE_GET_PATH *)

\* the result is the file name found; found says that it is not null
GetPathResult(fs, imageId, fault) ==
  IF fault = "join" THEN NoFile ELSE findImageFile(fs, imageId)

GetPath(imageId, fault) ==
  LET filePath == GetPathResult(files, imageId, fault) IN
  /\ fault \in {"none", "join"}
  /\ last' = Call("getPath", imageId, filePath[2], fault, [NoResult EXCEPT !.found = (filePath # NoFile)],
                  <<>>, <<>>, FALSE)
  /\ UNCHANGED <<dirExists, files, clock, watch, hist>>

----------------------------------------------------------------------------
(* IPC.CLIPBOARD_COPY_IMAGE_FILE *)

CopyImageFile(srcExt, bytes, r, fault) ==
  LET id == NewId(clock, r)
      ext == toLowerCase(srcExt)
      destPath == Name(id, ext)
      wrote == fault \in {"none", "stat"}
  IN
  /\ Room(destPath)
  /\ fault \in {"none", "mkdir", "copy", "stat"}
  /\ fault = "mkdir" => ~dirExists
  /\ dirExists' = IF fault = "mkdir" THEN dirExists ELSE ensureDir(dirExists)
  /\ files' = IF wrote THEN writeFile(files, destPath, bytes) ELSE files
  /\ IF wrote THEN Touch(id, ext, NoSave) ELSE UNCHANGED hist
  /\ last' = Call("copyImageFile", id, ext, fault, IF fault = "none"
                  THEN [found |-> TRUE, base64 |-> <<>>,
                        mimeType |-> getMimeFromExt(ext), size |-> Len(bytes)]
                  ELSE NoResult,
                  <<>>, <<>>, files' # files)
  /\ UNCHANGED <<clock, watch>>

----------------------------------------------------------------------------
(* IPC.CLIPBOARD_READ_IMAGE *)

\* mutant: the clipboard bitmap is written under another extension
ReadImageExt_Jpg == ".jpg"

ReadImageExt == ".png"

ReadImage(isEmpty, pngBuffer, r, fault, k) ==
  LET id == NewId(clock, r)
      filePath == Name(id, ReadImageExt)
      wrote == fault \in {"none", "write", "stat"}
  IN
  /\ fault \in {"none", "mkdir", "open", "write", "stat"}
  /\ fault = "write" => k < Len(pngBuffer)
  /\ IF isEmpty
     THEN /\ fault = "none"
          /\ UNCHANGED <<dirExists, files, hist>>
          /\ last' = Call("readImage", NoId, "", fault, NoResult,
                          <<>>, <<>>, FALSE)
     ELSE /\ Room(filePath)
          /\ fault = "mkdir" => ~dirExists
          /\ dirExists' = IF fault = "mkdir" THEN dirExists ELSE ensureDir(dirExists)
          /\ files' = IF wrote
                      THEN writeFileSync(files, filePath, pngBuffer, fault, k)
                      ELSE files
          /\ hist' = IF wrote /\ id = watch
                     THEN [hist EXCEPT !.written = Inc(@), !.ext = ReadImageExt,
                                       !.deleted = FALSE, !.save = NoSave,
                                       !.readImg = (@ \/ fault = "none")]
                     ELSE hist
          /\ last' = Call("readImage", id, ReadImageExt, fault, IF fault = "none"
                          THEN [found |-> TRUE, base64 |-> <<>>,
                                mimeType |-> "image/png",
                                size |-> Len(pngBuffer)]
                          ELSE NoResult,
                          <<>>, <<>>, files' # files)
  /\ UNCHANGED <<clock, watch>>

----------------------------------------------------------------------------
(* IPC.CLIPBOARD_GET_FILE_PATHS *)

\* A line of the clipboard text: url says that it starts with file://, bad
\* that decodeURIComponent throws on it, exists that the path it names is
\* on the filesystem.
ClipLine(url, bad, stem, ext, exists) ==
  [url |-> url, bad |-> bad, path |-> [stem |-> stem, ext |-> ext], exists |-> exists]

ClipLines ==
  { ClipLine(TRUE, FALSE, "a", ".PNG", TRUE),
    ClipLine(TRUE, FALSE, "b", ".txt", TRUE),
    ClipLine(TRUE, FALSE, "c", ".png", FALSE),
    ClipLine(FALSE, FALSE, "d", ".png", TRUE),
    ClipLine(TRUE, TRUE, "e", ".png", TRUE) }

\* the clipboard texts: no line, one line, or the line of the image file
\* a.PNG before or after another line
ImageLine == ClipLine(TRUE, FALSE, "a", ".PNG", TRUE)

ClipTexts == {<<>>} \cup { <<l>> : l \in ClipLines }
             \cup { <<ImageLine, l>> : l \in ClipLines }
             \cup { <<l, ImageLine>> : l \in ClipLines }

\* the lines that start with file://, when the text does
FileUrlLines(text) ==
  IF text # <<>> /\ text[1].url
  THEN SelectSeq(text, LAMBDA l : l.url)
  ELSE <<>>

\* mutant: the filter keeps every path that exists
IsImageFile_AnyExt(l) == l.exists

IsImageFile(l) == l.exists /\ toLowerCase(l.path.ext) \in SupportedSet

RECURSIVE PathsOf(_)
PathsOf(ls) == IF ls = <<>> THEN <<>> ELSE <<Head(ls).path>> \o PathsOf(Tail(ls))

GetFilePathsResult(text) ==
  LET ls == FileUrlLines(text) IN
  IF \E i \in DOMAIN ls : ls[i].bad THEN <<>>
  ELSE PathsOf(SelectSeq(ls, IsImageFile))

GetFilePathsFault(text) ==
  LET ls == FileUrlLines(text) IN
  IF \E i \in DOMAIN ls : ls[i].bad THEN "decode" ELSE "none"

\* last.text is the clipboard text the handler read
GetFilePaths(text) ==
  /\ last' = [Call("getFilePaths", NoId, "", GetFilePathsFault(text),
                   NoResult, <<>>, GetFilePathsResult(text), FALSE)
              EXCEPT !.text = text]
  /\ UNCHANGED <<dirExists, files, clock, watch, hist>>

----------------------------------------------------------------------------
(* Date.now() advances *)

Tick ==
  /\ clock < MaxClock
  /\ clock' = clock + 1
  /\ UNCHANGED <<dirExists, files, last, watch, hist>>
  /\ UNCHANGED webVars

----------------------------------------------------------------------------
(* The web application.  The blob store with its size cap, and the URL     *)
(* resolution directive: per image node Pending -> Resolved | Failed, a    *)
(* pending-request cache keyed by id, one token per settled load, release  *)
(* of the token on disposal of the node.                                   *)

Nodes == 1..MaxNodes

WebIds == {"a", "b"}

\* max 2MB per image
MAX_IMAGE_SIZE == 2 * 1024 * 1024

\* byte lengths of the pasted images
BlobSizes == {MAX_IMAGE_SIZE, MAX_IMAGE_SIZE + 1}

NoToken == 0

NoNode == [st |-> "none", id |-> "", token |-> NoToken, alive |-> FALSE]

\* mutant: the cap excludes its own value
ExceedsCap_Inclusive(size) == size >= MAX_IMAGE_SIZE

ExceedsCap(size) == size > MAX_IMAGE_SIZE

\* save(bytes, mimeType) -> id of the capped backend: the size is checked
\* before anything is written; id is the new identifier
BlobSave(id, size) ==
  /\ blobs[id] = 0
  /\ IF ExceedsCap(size)
     THEN /\ blobs' = blobs
          /\ webLast' = [op |-> "save", id |-> id, size |-> size,
                         result |-> "SizeLimitExceeded", changed |-> FALSE]
     ELSE /\ blobs' = [blobs EXCEPT ![id] = size]
          /\ webLast' = [op |-> "save", id |-> id, size |-> size,
                         result |-> "ok", changed |-> TRUE]
  /\ UNCHANGED <<nodes, pending, inflight, tokens, nextToken>>

\* delete(id) -> boolean of the blob store
BlobDelete(id) ==
  /\ blobs' = [blobs EXCEPT ![id] = 0]
  /\ webLast' = [op |-> "delete", id |-> id, size |-> 0,
                 result |-> IF blobs[id] # 0 THEN "true" ELSE "false",
                 changed |-> blobs[id] # 0]
  /\ UNCHANGED <<nodes, pending, inflight, tokens, nextToken>>

\* mutant: the pending-request cache is not consulted
InCache_Never(id, cache) == FALSE

InCache(id, cache) == id \in cache

\* The renderer meets an image node whose src is a reference to id: the node
\* is Pending, and a backend load is started unless one is in flight for id.
Resolve(n, id) ==
  /\ nodes[n].st = "none"
  /\ nodes' = [nodes EXCEPT ![n] = [st |-> "Pending", id |-> id,
                                    token |-> NoToken, alive |-> TRUE]]
  /\ IF InCache(id, pending)
     THEN UNCHANGED <<pending, inflight>>
     ELSE /\ pending' = pending \cup {id}
          /\ inflight' = [inflight EXCEPT ![id] = @ + 1]
  /\ UNCHANGED <<blobs, webLast, tokens, nextToken>>

\* mutant: nodes torn down while Pending still take the result
Waiting_TornDown(id) ==
  {n \in Nodes : nodes[n].st = "Pending" /\ nodes[n].id = id}

\* the nodes of the render tree that wait for the load of id
Waiting(id) ==
  {n \in Nodes : nodes[n].st = "Pending" /\ nodes[n].id = id /\ nodes[n].alive}

\* The load of id settles: found -> one token for the nodes that wait,
\* released at once when none does; NotFound or a read error -> Failed.  The
\* entry of id leaves the pending-request cache either way.
Settle(id, readError) ==
  LET found == blobs[id] # 0 /\ ~readError
      w == Waiting(id)
  IN
  /\ inflight[id] > 0
  /\ inflight' = [inflight EXCEPT ![id] = @ - 1]
  /\ pending' = pending \ {id}
  /\ IF found
     THEN /\ nodes' = [n \in Nodes |->
                        IF n \in w
                        THEN [nodes[n] EXCEPT !.st = "Resolved", !.token = nextToken]
                        ELSE nodes[n]]
          /\ tokens' = IF w = {} THEN tokens ELSE tokens \cup {nextToken}
          /\ nextToken' = nextToken + 1
     ELSE /\ nodes' = [n \in Nodes |->
                        IF n \in w
                        THEN [nodes[n] EXCEPT !.st = "Failed"]
                        ELSE nodes[n]]
          /\ UNCHANGED <<tokens, nextToken>>
  /\ UNCHANGED <<blobs, webLast>>

\* The node leaves the render tree; the token of a Resolved node is released.
Dispose(n) ==
  /\ nodes[n].alive
  /\ nodes' = [nodes EXCEPT ![n].alive = FALSE]
  /\ tokens' = IF nodes[n].st = "Resolved" THEN tokens \ {nodes[n].token}
               ELSE tokens
  /\ UNCHANGED <<blobs, webLast, pending, inflight, nextToken>>

----------------------------------------------------------------------------

WebInit ==
  /\ blobs = [id \in WebIds |-> 0]
  /\ webLast = [op |-> "init", id |-> "", size |-> 0, result |-> "", changed |-> FALSE]
  /\ nodes = [n \in Nodes |-> NoNode]
  /\ pending = {}
  /\ inflight = [id \in WebIds |-> 0]
  /\ tokens = {}
  /\ nextToken = 1

Init ==
  /\ WebInit
  /\ dirExists = FALSE
  /\ files = [n \in {} |-> <<>>]
  /\ clock = 1
  /\ last = Call("init", NoId, "", "none", NoResult, <<>>, <<>>, FALSE)
  /\ watch \in Ids
  /\ hist = [written |-> 0, ext |-> "", deleted |-> FALSE, save |-> NoSave,
             readImg |-> FALSE]

WriteFaults == {"none", "mkdir", "open", "write", "stat"}

\* bytes a failing write leaves in the file
PartialLens == {2}

DoSave ==
  /\ \E id \in Ids, ext \in SaveExts, d \in Base64Inputs, f \in WriteFaults,
        k \in PartialLens : Save(id, ext, d, f, k)
  /\ UNCHANGED webVars
DoLoad ==
  /\ \E id \in Ids, f \in {"none", "read"} : Load(id, f)
  /\ UNCHANGED webVars
DoDelete ==
  /\ \E id \in Ids, f \in {"none", "unlink"} : Delete(id, f)
  /\ UNCHANGED webVars
DoList ==
  /\ \E f \in {"none", "io"} : List(f)
  /\ UNCHANGED webVars
DoGetPath ==
  /\ \E id \in Ids, f \in {"none", "join"} : GetPath(id, f)
  /\ UNCHANGED webVars
DoCopyImageFile ==
  /\ \E e \in CopyExts, b \in Payloads, r \in Rands,
        f \in {"none", "mkdir", "copy", "stat"} : CopyImageFile(e, b, r, f)
  /\ UNCHANGED webVars
DoReadImage ==
  /\ \E isEmpty \in BOOLEAN, b \in Payloads, r \in Rands,
        f \in WriteFaults, k \in PartialLens : ReadImage(isEmpty, b, r, f, k)
  /\ UNCHANGED webVars
DoGetFilePaths ==
  /\ \E text \in ClipTexts : GetFilePaths(text)
  /\ UNCHANGED webVars

Next ==
  \/ DoSave
  \/ DoLoad
  \/ DoDelete
  \/ DoList
  \/ DoGetPath
  \/ DoCopyImageFile
  \/ DoReadImage
  \/ DoGetFilePaths
  \/ Tick

Spec == Init /\ [][Next]_vars

\* The web application alone: the blob store is the backend, the directory
\* of the desktop application is not used.
InitWeb ==
  /\ WebInit
  /\ dirExists = FALSE
  /\ files = [n \in {} |-> <<>>]
  /\ clock = 1
  /\ last = Call("init", NoId, "", "none", NoResult, <<>>, <<>>, FALSE)
  /\ watch = NoId
  /\ hist = [written |-> 0, ext |-> "", deleted |-> FALSE, save |-> NoSave,
             readImg |-> FALSE]

DoBlobSave ==
  /\ \E id \in WebIds, size \in BlobSizes : BlobSave(id, size)
  /\ UNCHANGED storeVars
DoBlobDelete ==
  /\ \E id \in WebIds : BlobDelete(id)
  /\ UNCHANGED storeVars
DoResolve ==
  /\ \E n \in Nodes, id \in WebIds : Resolve(n, id)
  /\ UNCHANGED storeVars
DoSettle ==
  /\ \E id \in WebIds, readError \in BOOLEAN : Settle(id, readError)
  /\ UNCHANGED storeVars
DoDispose ==
  /\ \E n \in Nodes : Dispose(n)
  /\ UNCHANGED storeVars

NextWeb ==
  \/ DoBlobSave
  \/ DoBlobDelete
  \/ DoResolve
  \/ DoSettle
  \/ DoDispose

SpecWeb == InitWeb /\ [][NextWeb]_vars

----------------------------------------------------------------------------
(* Properties.  The claims are about every identifier; watch is any one of  *)
(* them, so a property of watch is a property of each.                      *)

\* a step of a handler (every step but Tick)
HandlerStep == clock' = clock

FilesOf(fs, id) == {n \in DOMAIN fs : n[1] = id}

StoreOps == {"save", "copyImageFile", "readImage"}
ReadOps == {"load", "delete", "list", "getPath", "getFilePaths"}

\* C1: a load of an id whose last write was a complete save of bytes b under
\* {id}{ext}, ext a supported extension, with no delete or write of the id
\* since, returns exactly b and the mime type of ext.
C1_SaveLoadFidelity ==
  (last.op = "load" /\ last.id = watch /\ last.fault = "none" /\ hist.save.ok)
  => /\ last.found
     /\ B64Decode(last.base64) = hist.save.bytes
     /\ last.mimeType = getMimeFromExt(hist.save.ext)

\* C2: once delete(id) has returned true, and until a call writes the id
\* again, load(id) and getPath(id) return null and do not throw.
C2_DeleteThenResolve ==
  (last.op \in {"load", "getPath"} /\ last.id = watch /\ hist.deleted)
  => ~last.found /\ ~last.threw

\* C3: load of an id that was never written, or that was deleted and not
\* written since, returns null and does not throw, whether or not the
\* directory exists.
C3_MissingImage ==
  (last.op = "load" /\ last.id = watch /\ (hist.written = 0 \/ hist.deleted))
  => ~last.found /\ ~last.threw

C5_RecordsImmutable ==
  [][ (HandlerStep /\ last'.op \in StoreOps /\ last'.fault = "none"
         /\ LoadResult(files, watch, "none").found)
      => LoadResult(files', watch, "none") = LoadResult(files, watch, "none") ]_vars

\* C6: list() never returns two records with the same id.
C6_UniqueIds ==
  last.op = "list"
  => \A i, j \in DOMAIN last.list :
       i # j => last.list[i].id # last.list[j].id

\* C7: a save that throws, and a copy-image-file or read-image that returns
\* null because the medium failed, leaves the directory content as it was.
C7_FailedWriteRolledBack ==
  (last.op \in StoreOps /\ last.fault # "none") => ~last.changed

\* C8: load, delete, list, getPath and get-file-paths never throw, and when
\* the medium fails they return what they return for a missing record
\* (null, false, the empty list); only save throws.
C8_ReadFailuresAbsorbed ==
  /\ last.op \in ReadOps => ~last.threw
  /\ (last.op \in ReadOps /\ last.fault # "none")
       => (~last.found /\ last.list = <<>> /\ last.paths = <<>>)
  /\ last.threw => last.op = "save"
  /\ (last.op = "save" /\ last.fault # "none") => last.threw

\* C8 witness: a load whose read of an existing file failed
C8_Witness ==
  /\ last.op = "load" /\ last.fault = "read" /\ ~last.found /\ ~last.threw
  /\ findImageFile(files, last.id) # NoFile

\* C9: for an id with one file {id}{ext}, whatever ext is, load(id) reports
\* the mime type mapped to ext (image/png when ext is unknown), and list()
\* reports every file of the directory with the mime type mapped to its
\* extension.
C9_MimeTotalOnRead ==
  /\ (last.op = "load" /\ last.fault = "none"
        /\ Cardinality(FilesOf(files, last.id)) = 1)
     => \A n \in FilesOf(files, last.id) :
          /\ last.found
          /\ last.mimeType \in MimeTypes
          /\ last.mimeType = getMimeFromExt(extname(n))
  /\ (last.op = "list" /\ last.fault = "none")
     => \A n \in DOMAIN files :
          \E i \in DOMAIN last.list :
            /\ last.list[i].id = n[1]
            /\ last.list[i].mimeType = getMimeFromExt(extname(n))

\* C10: every non-null result of read-image has mimeType image/png, and a
\* load of an id that read-image returned, not deleted since, returns a
\* record (unless the read fails) and its mimeType is image/png.
C10_RawImageStoredAsPng ==
  /\ (last.op = "readImage" /\ last.found) => last.mimeType = "image/png"
  /\ (last.op = "load" /\ last.id = watch /\ hist.readImg)
     => /\ last.fault = "none" => last.found
        /\ last.found => last.mimeType = "image/png"

\* C10 witness: an id that read-image returned has been loaded, while a file
\* of another extension exists under that id
C10_Witness ==
  /\ last.op = "load" /\ last.id = watch /\ hist.readImg /\ last.found
  /\ Cardinality(FilesOf(files, watch)) > 1

C12_ListMetadata ==
  [][ (HandlerStep /\ last'.op = "list" /\ last'.fault = "none")
      => /\ Len(last'.list) = Cardinality(DOMAIN files')
         /\ \A n \in DOMAIN files' :
              \E i \in DOMAIN last'.list :
                /\ last'.list[i].id = n[1]
                /\ last'.list[i].size = Len(files'[n])
         /\ \A i \in DOMAIN last'.list :
              DOMAIN last'.list[i] = {"id", "mimeType", "size"}
         /\ (last.op = "list" /\ last.fault = "none")
              => last'.list = last.list ]_vars

GenOps == {"copyImageFile", "readImage"}

\* C13: two calls of copy-image-file or read-image that follow one another
\* and both return a record return distinct ids, also when Date.now() has
\* not advanced between them.
C13_GeneratedIdsDistinct ==
  [][ (HandlerStep /\ last.op \in GenOps /\ last.found
         /\ last'.op \in GenOps /\ last'.found)
      => last'.id # last.id ]_vars

\* C14: at most one backend load is in flight for an id, however many nodes
\* ask for it, and the pending-request cache holds the id exactly while that
\* load is in flight; when the load settles the entry is removed, on success
\* and on failure, at most one token is created, and the nodes that waited
\* for it all end in the same state with the same token.
C14_ResolutionDedup ==
  [][ /\ \A id \in WebIds :
           /\ inflight'[id] <= 1
           /\ id \in pending' <=> inflight'[id] = 1
      /\ \A id \in pending \ pending' :
           /\ inflight'[id] = 0
           /\ Cardinality(tokens' \ tokens) <= 1
           /\ \A n1, n2 \in Waiting(id) :
                /\ nodes'[n1].st \in {"Resolved", "Failed"}
                /\ nodes'[n1].st = nodes'[n2].st
                /\ nodes'[n1].token = nodes'[n2].token ]_vars

\* C14 witness: two nodes of the render tree were resolved by one load
C14_Witness ==
  \E n1, n2 \in Nodes :
    /\ n1 # n2
    /\ nodes[n1].st = "Resolved" /\ nodes[n2].st = "Resolved"
    /\ nodes[n1].alive /\ nodes[n2].alive
    /\ nodes[n1].token = nodes[n2].token
    /\ pending = {}

\* C15: every live token is the src of a Resolved node of the render tree,
\* so the token of a node is released when the node is disposed and a token
\* created for no waiting node is released at once; and a node that has left
\* the render tree is never changed again, so the result of a load that
\* settles after the node was torn down is not substituted into it.
C15_TokensReleased ==
  [][ /\ \A t \in tokens' :
           \E n \in Nodes :
             nodes'[n].alive /\ nodes'[n].st = "Resolved" /\ nodes'[n].token = t
      /\ \A n \in Nodes :
           (nodes[n].st # "none" /\ ~nodes[n].alive) => nodes'[n] = nodes[n] ]_vars

\* C15 witness: the only node was torn down while Pending and the load of
\* its id has settled with the blob found
C15_Witness ==
  \E n \in Nodes :
    /\ nodes[n].st = "Pending" /\ ~nodes[n].alive
    /\ nodes[n].id \notin pending
    /\ nextToken > 1
    /\ \A m \in Nodes \ {n} : nodes[m].st = "none"

\* C16: on the capped backend a save of exactly MAX_IMAGE_SIZE bytes succeeds
\* and stores the record; a save of MAX_IMAGE_SIZE + 1 bytes fails with
\* SizeLimitExceeded, writes nothing and leaves no record of its id.
C16_SizeBoundary ==
  webLast.op = "save"
  => /\ webLast.size = MAX_IMAGE_SIZE
          => /\ webLast.result = "ok"
             /\ blobs[webLast.id] = MAX_IMAGE_SIZE
     /\ webLast.size = MAX_IMAGE_SIZE + 1
          => /\ webLast.result = "SizeLimitExceeded"
             /\ ~webLast.changed
             /\ blobs[webLast.id] = 0

\* C16 witness: a save of one byte too many has failed after a save of
\* exactly the cap succeeded
C16_Witness ==
  /\ webLast.op = "save" /\ webLast.size = MAX_IMAGE_SIZE + 1
  /\ webLast.result = "SizeLimitExceeded"
  /\ \E id \in WebIds : blobs[id] = MAX_IMAGE_SIZE

\* the files of fs1 and fs2, apart from those in the set except, are the same
SameApartFrom(fs1, fs2, except) ==
  \A n \in ((DOMAIN fs1) \cup (DOMAIN fs2)) \ except :
    n \in DOMAIN fs1 /\ n \in DOMAIN fs2 /\ fs1[n] = fs2[n]

\* C17: load, list, getPath and get-file-paths change neither the directory
\* content nor whether the directory exists; only save, copy-image-file and
\* read-image create the directory; delete(id) removes at most one file, a
\* file of that id, adds none and leaves every other file as it was; save
\* changes only the file it names.
C17_Frame ==
  [][ HandlerStep
      => /\ last'.op \in {"load", "list", "getPath", "getFilePaths"}
              => (files' = files /\ dirExists' = dirExists)
         /\ dirExists' # dirExists
              => (dirExists' /\ last'.op \in StoreOps)
         /\ last'.op = "delete"
              => /\ dirExists' = dirExists
                 /\ DOMAIN files' \subseteq DOMAIN files
                 /\ Cardinality((DOMAIN files) \ (DOMAIN files')) <= 1
                 /\ SameApartFrom(files, files', FilesOf(files, last'.id))
                 /\ \A n \in DOMAIN files' : files'[n] = files[n]
         /\ last'.op = "save"
              => SameApartFrom(files, files', {Name(last'.id, last'.ext)}) ]_vars

\* C17 witness: a delete removed one of two files of its id
C17_Witness ==
  /\ last.op = "delete" /\ last.found /\ last.changed
  /\ FilesOf(files, last.id) # {}

\* the payloads that some call can write completely
CompletePayloads == { B64Decode(d) : d \in Base64Inputs } \cup Payloads

\* C18: with the handlers interleaved in any order, a save of one id leaves
\* the files of every other id as they were, and a load that returns a
\* record returns the complete bytes of a payload that was handed to save,
\* copy-image-file or read-image, never a part of one.
C18_ConcurrentAccessSafe ==
  [][ HandlerStep
      => /\ last'.op = "save"
              => SameApartFrom(files, files', FilesOf(files', last'.id))
         /\ (last'.op = "load" /\ last'.found)
              => B64Decode(last'.base64) \in CompletePayloads ]_vars

\* C19: in every reachable state, every entry of list() names an id that
\* load returns a record for, with the mime type of the entry, and every id
\* that load returns a record for has an entry in list().
C19_ListLoadAgree ==
  LET l == ListResult(dirExists, files, "none") IN
  /\ \A i \in DOMAIN l :
       /\ LoadResult(files, l[i].id, "none").found
       /\ LoadResult(files, l[i].id, "none").mimeType = l[i].mimeType
  /\ \A id \in Ids :
       LoadResult(files, id, "none").found
         => \E i \in DOMAIN l : l[i].id = id

\* C20: when copy-image-file or read-image has returned a record {id,
\* mimeType, size}, whatever the source path was, a load of that id that
\* follows directly (and whose read does not fail) returns a record with
\* that mimeType and a payload of size bytes.
C20_CreatedRecordRetrievable ==
  [][ (HandlerStep /\ last.op \in GenOps /\ last.found
         /\ last'.op = "load" /\ last'.id = last.id /\ last'.fault = "none")
      => /\ last'.found
         /\ last'.mimeType = last.mimeType
         /\ Len(B64Decode(last'.base64)) = last.size ]_vars

\* the positions in .png, .jpg, .jpeg, .gif, .webp, .svg, .bmp of the
\* extensions under which a file of the id exists
ExtsPresent(fs, id) ==
  {i \in DOMAIN SUPPORTED_IMAGE_EXTENSIONS :
     Name(id, SUPPORTED_IMAGE_EXTENSIONS[i]) \in DOMAIN fs}

\* the file of the id whose extension comes first in that order
FirstFile(fs, id) ==
  Name(id, SUPPORTED_IMAGE_EXTENSIONS[
             CHOOSE i \in ExtsPresent(fs, id) : \A j \in ExtsPresent(fs, id) : i <= j])

\* C21: a load, delete or getPath of an id (that meets no failure of the
\* medium) returns a result exactly when a file of the id with a supported
\* extension exists, and then all three select the file whose extension
\* comes first in the order .png, .jpg, .jpeg, .gif, .webp, .svg, .bmp: load
\* returns its bytes and mime type, getPath its path, delete removes it and
\* no other; so getPath(id) is non-null exactly when load(id) is.
C21_LookupShared ==
  [][ (HandlerStep /\ last'.op \in {"load", "delete", "getPath"}
         /\ last'.fault = "none")
      => /\ last'.found <=> ExtsPresent(files, last'.id) # {}
         /\ (last'.found /\ last'.op = "load")
              => /\ last'.mimeType = getMimeFromExt(FirstFile(files, last'.id)[2])
                 /\ B64Decode(last'.base64) = files[FirstFile(files, last'.id)]
         /\ (last'.found /\ last'.op = "getPath")
              => last'.ext = FirstFile(files, last'.id)[2]
         /\ (last'.found /\ last'.op = "delete")
              => /\ DOMAIN files' = (DOMAIN files) \ {FirstFile(files, last'.id)}
                 /\ \A n \in DOMAIN files' : files'[n] = files[n]
         /\ \A id \in Ids :
              (GetPathResult(files, id, "none") # NoFile)
                <=> LoadResult(files, id, "none").found ]_vars

\* C21 witness: getPath has returned the .png file of an id that also has a
\* .jpg file
C21_Witness ==
  /\ last.op = "getPath" /\ last.found /\ last.fault = "none"
  /\ last.ext = ".png"
  /\ existsSync(files, Name(last.id, ".jpg"))

====
